---- MODULE Spec2Model ----
(***************************************************************************)
(* Excel File Editor MCP server (src/main.py): the nine tool operations    *)
(* over spreadsheet documents on disk.                                     *)
(*                                                                         *)
(* A Document is the ordered list of its worksheets; a worksheet is a      *)
(* title, a grid of cell values and a grid of cell styles.  The grid is    *)
(* MaxRow rows by NCols columns; a cell that was never written and a cell  *)
(* holding None or the empty string are the same cell (Null), as they are  *)
(* for every reader used by the program.                                   *)
(*                                                                         *)
(* Library calls are modelled by what they do in pandas 2.x / openpyxl 3.x *)
(* (pd.DataFrame, DataFrame.to_excel, pd.read_excel, Series.astype(str),   *)
(* Series.str.contains, Workbook.create_sheet / remove / save, Font).      *)
(*                                                                         *)
(* The operations are atomic steps in the specifications of single calls;  *)
(* SpecConc runs update_excel_cell and delete_excel_sheet of two callers   *)
(* step by step (load, open the file for writing, close it).               *)
(***************************************************************************)
EXTENDS Integers, Sequences, FiniteSets, TLC

\* files: the file system; call, result: the last call that returned and
\* what it returned; pending: the calls in flight, by caller
VARIABLES files, call, result, pending

vars == <<files, call, result, pending>>

\* ---------------------------------------------------------------- bounds
MaxRow == 3

\* --------------------------------------------------------------- scalars
\* A scalar is tagged with its Python type; s is its text (for a number, the
\* digits of its integer value).
Null == [t |-> "null", s |-> <<>>]
Str(s) == [t |-> "str", s |-> s]
Num(s) == [t |-> "int", s |-> s]
Float(s) == [t |-> "float", s |-> s]

IsNull(v) == v.t = "null" \/ (v.t = "str" /\ v.s = <<>>)
IsNumber(v) == v.t \in {"int", "float"}

\* what a worksheet cell holds once value v is assigned and the file saved: None
\* and "" leave the cell empty, an integral float is stored as the number
CellOf(v) == IF IsNull(v) THEN Null ELSE IF v.t = "float" THEN Num(v.s) ELSE v

\* column letters of the modelled grid, openpyxl column_index_from_string
ColLetters == <<"A", "B">>
NCols == Len(ColLetters)
ColIndex(letter) == CHOOSE i \in 1..NCols : ColLetters[i] = letter

Rows == 1..MaxRow
Cols == 1..NCols

\* ---------------------------------------------------------------- styles
NoColor == ""
NoSize == 0
\* the font of a cell no Format Descriptor field was ever set on
DefaultFont == [color |-> NoColor, bold |-> FALSE, size |-> NoSize]
DefaultStyle == [font |-> DefaultFont, fill |-> NoColor]

\* openpyxl.styles.Font(**font_kwargs): every field not passed is None
Font(font_kwargs) ==
    [color |-> IF "color" \in DOMAIN font_kwargs THEN font_kwargs.color ELSE NoColor,
     bold  |-> IF "bold" \in DOMAIN font_kwargs THEN font_kwargs.bold ELSE FALSE,
     size  |-> IF "size" \in DOMAIN font_kwargs THEN font_kwargs.size ELSE NoSize]

\* ------------------------------------------------------------- documents
NoFile == [exists |-> FALSE, sheets |-> <<>>]
Document(sheets) == [exists |-> TRUE, sheets |-> sheets]

EmptyCells == [r \in Rows |-> [c \in Cols |-> Null]]
PlainStyles == [r \in Rows |-> [c \in Cols |-> DefaultStyle]]
Worksheet(title, cells, styles) == [title |-> title, cells |-> cells, styles |-> styles]

\* Workbook.sheetnames
sheetnames(wb) == [i \in 1..Len(wb.sheets) |-> wb.sheets[i].title]
SeqRange(s) == {s[i] : i \in 1..Len(s)}
SheetIndex(wb, name) == CHOOSE i \in 1..Len(wb.sheets) : wb.sheets[i].title = name

\* openpyxl.Workbook(): one empty worksheet titled "Sheet"
Workbook == Document(<<Worksheet("Sheet", EmptyCells, PlainStyles)>>)

\* paths of the file system; file_path.endswith(('.xlsx', '.xls'))
Paths == {"t.xlsx", "t.csv"}
SupportedPaths == {"t.xlsx"}

\* the names openpyxl opens: load_workbook raises InvalidFileException for a
\* name that does not end in .xlsx (.xlsm, .xltx, .xltm), and pd.ExcelWriter
\* with engine='openpyxl' raises ValueError for it before the file is opened;
\* Workbook.save and pd.read_excel do not look at the name
XlsxPaths == {"t.xlsx"}

\* os.path.exists(file_path)
exists(p) == files[p].exists

\* ------------------------------------------------------------ DataFrames
\* A Tabular Record Set (List[Dict]) is a sequence of rows, a row the ordered
\* sequence of its <<key, value>> items.  A DataFrame is its column labels and
\* its rows of values, NaN being Null.
RowKeys(row) == [i \in 1..Len(row) |-> row[i][1]]
RowGet(row, k) ==
    IF \E i \in 1..Len(row) : row[i][1] = k
    THEN row[CHOOSE i \in 1..Len(row) : row[i][1] = k][2]
    ELSE Null

RECURSIVE KeysUnion(_, _)
KeysUnion(data, acc) ==
    IF data = <<>> THEN acc
    ELSE KeysUnion(Tail(data),
                   acc \o SelectSeq(RowKeys(Head(data)),
                                    LAMBDA k : k \notin SeqRange(acc)))

\* pd.DataFrame(data): columns in order of first appearance, absent keys NaN
DataFrame(data) ==
    LET cols == KeysUnion(data, <<>>)
    IN [columns |-> cols,
        rows |-> [i \in 1..Len(data) |->
                    [j \in 1..Len(cols) |-> RowGet(data[i], cols[j])]]]

\* pandas styles the header cells it writes: bold font (borders and alignment
\* are not Format Descriptor fields)
HeaderStyle == [font |-> Font([bold |-> TRUE]), fill |-> NoColor]

\* df.to_excel(writer, sheet_name, index=False) into a fresh worksheet: the
\* labels in row 1, the rows below, NaN as an empty cell; nothing at all for a
\* frame without columns
to_excel(df, sheet_name) ==
    LET nc == Len(df.columns)
        cells == [r \in Rows |-> [c \in Cols |->
                    IF c > nc THEN Null
                    ELSE IF r = 1 THEN CellOf(df.columns[c])
                    ELSE IF r - 1 <= Len(df.rows) THEN CellOf(df.rows[r - 1][c])
                    ELSE Null]]
        styles == [r \in Rows |-> [c \in Cols |->
                    IF r = 1 /\ c <= nc THEN HeaderStyle ELSE DefaultStyle]]
    IN Worksheet(sheet_name, cells, styles)

\* strings pandas reads as missing (STR_NA_VALUES), those of the alphabet used
NaStrings == {<<"N", "A">>, <<"n", "a", "n">>}

Max(S) == CHOOSE m \in S : \A x \in S : x <= m
LastRow(cells) == Max({0} \cup {r \in Rows : \E c \in Cols : ~IsNull(cells[r][c])})
LastCol(cells) == Max({0} \cup {c \in Cols : \E r \in Rows : ~IsNull(cells[r][c])})

Digits == <<"0", "1", "2", "3", "4", "5", "6", "7", "8", "9">>
TextOf(v) == IF v.t = "float" THEN v.s \o <<".", "0">> ELSE v.s

\* header labels: an empty header cell is "Unnamed: <i>", a repeated label
\* gets ".<n>" appended
RawLabel(cells, c) ==
    IF IsNull(cells[1][c]) THEN Str(<<"Unnamed: ", Digits[c]>>) ELSE cells[1][c]
Label(cells, c) ==
    LET n == Cardinality({d \in 1..(c - 1) : RawLabel(cells, d) = RawLabel(cells, c)})
    IN IF n = 0 THEN RawLabel(cells, c)
       ELSE Str(TextOf(RawLabel(cells, c)) \o <<".", Digits[n + 1]>>)

\* a data cell as parsed: empty and NA strings are NaN
Parsed(v) == IF IsNull(v) \/ (v.t = "str" /\ v.s \in NaStrings) THEN Null ELSE v

\* dtype of column c over data rows 2..nr
Dtype(cells, nr, c) ==
    LET vals == {Parsed(cells[r][c]) : r \in 2..nr}
    IN IF \E v \in vals : v.t = "str" THEN "object"
       ELSE IF Null \in vals \/ vals = {} THEN "float64"
       ELSE "int64"

\* pd.read_excel(file, sheet_name=...) of one worksheet: trailing empty rows
\* and columns are dropped, row 1 is the header, blank rows inside are kept
read_excel(ws) ==
    LET nr == LastRow(ws.cells)
        nc == LastCol(ws.cells)
    IN IF nr = 0 THEN [columns |-> <<>>, rows |-> <<>>, dtypes |-> <<>>]
       ELSE [columns |-> [c \in 1..nc |-> Label(ws.cells, c)],
             rows |-> [i \in 1..(nr - 1) |-> [c \in 1..nc |->
                        LET v == Parsed(ws.cells[i + 1][c])
                        IN IF IsNumber(v) /\ Dtype(ws.cells, nr, c) = "float64"
                           THEN Float(v.s) ELSE v]],
             dtypes |-> [c \in 1..nc |-> Dtype(ws.cells, nr, c)]]

\* ------------------------------------------------------------ operations
\* an error object: the message, by its kind in the error taxonomy and what it
\* is about (the file, the sheet, or the exception caught)
Error(kind, about) == [error |-> kind, about |-> about]
IsError(r) == "error" \in DOMAIN r

\* an exception that leaves the function
Uncaught(exc) == [raised |-> exc]

\* except Exception as e: return {"error": ...}
Caught(exc) == Error("Unexpected", exc)
NoSheetName == ""

\* read_excel_file(file_path, sheet_name)
read_excel_file(file_path, sheet_name) ==
    /\ call' = [op |-> "read_excel_file", file_path |-> file_path, sheet_name |-> sheet_name]
    /\ UNCHANGED <<files, pending>>
    /\ result' =
         IF ~exists(file_path) THEN Error("NotFound", "file")
         ELSE IF file_path \notin SupportedPaths THEN Error("UnsupportedFormat", "file")
         ELSE LET wb == files[file_path] IN
              IF sheet_name # NoSheetName /\ sheet_name \notin SeqRange(sheetnames(wb))
              THEN Caught("ValueError")
              ELSE LET ws == IF sheet_name # NoSheetName
                             THEN wb.sheets[SheetIndex(wb, sheet_name)]
                             ELSE wb.sheets[1]
                       df == read_excel(ws)
                   IN [file_path |-> file_path,
                       sheet_name |-> IF sheet_name # NoSheetName THEN sheet_name ELSE "default",
                       shape |-> [rows |-> Len(df.rows), columns |-> Len(df.columns)],
                       columns |-> df.columns,
                       data |-> [i \in 1..Len(df.rows) |->
                                   [record |-> df.rows[i], _excel_row_number |-> (i - 1) + 2]]]

\* a writer that keeps the worksheets already in the file (mode "a")
ExcelWriterAppend(old, ws) ==
    Document(SelectSeq(old.sheets, LAMBDA w : w.title # ws.title) \o <<ws>>)

\* with pd.ExcelWriter(file_path, engine='openpyxl') as writer: a new workbook
\* (mode "w") that holds the one worksheet written, saved over the file
ExcelWriter(old, ws) == Document(<<ws>>)

\* write_excel_file(file_path, data, sheet_name)
write_excel_file(file_path, data, sheet_name) ==
    LET df == DataFrame(data) IN
    /\ UNCHANGED pending
    /\ call' = [op |-> "write_excel_file", file_path |-> file_path, data |-> data,
                sheet_name |-> sheet_name]
    /\ files' = IF file_path \notin XlsxPaths THEN files
                ELSE [files EXCEPT ![file_path] =
                        ExcelWriter(files[file_path], to_excel(df, sheet_name))]
    /\ result' =
         IF file_path \notin XlsxPaths THEN Caught("ValueError")
         ELSE [status |-> "success", file_path |-> file_path, sheet_name |-> sheet_name,
               rows_written |-> Len(data),
               columns |-> IF df.rows # <<>> /\ df.columns # <<>> THEN df.columns ELSE <<>>]

\* list_excel_sheets(file_path)
list_excel_sheets(file_path) ==
    /\ call' = [op |-> "list_excel_sheets", file_path |-> file_path]
    /\ UNCHANGED <<files, pending>>
    /\ result' =
         IF ~exists(file_path) THEN Error("NotFound", "file")
         ELSE IF file_path \notin XlsxPaths THEN Caught("InvalidFileException")
         ELSE LET sheets == sheetnames(files[file_path])
              IN [file_path |-> file_path, sheets |-> sheets, total_sheets |-> Len(sheets)]

\* the workbook with worksheet number i replaced
WithSheet(wb, i, ws) == [wb EXCEPT !.sheets[i] = ws]

\* worksheet[cell_address] = value on the workbook loaded
SetCell(wb, sheet_name, row, column, value) ==
    LET i == SheetIndex(wb, sheet_name)
    IN WithSheet(wb, i, [wb.sheets[i] EXCEPT
                           !.cells[row][ColIndex(column)] = CellOf(value)])

\* update_excel_cell(file_path, sheet_name, row, column, value)
update_excel_cell(file_path, sheet_name, row, column, value) ==
    LET wb == files[file_path]
        loaded == exists(file_path) /\ file_path \in XlsxPaths
        found == loaded /\ sheet_name \in SeqRange(sheetnames(wb))
    IN
    /\ UNCHANGED pending
    /\ call' = [op |-> "update_excel_cell", file_path |-> file_path,
                sheet_name |-> sheet_name, row |-> row, column |-> column, value |-> value]
    /\ files' = IF found /\ row >= 1
                THEN [files EXCEPT ![file_path] =
                        SetCell(wb, sheet_name, row, column, value)]
                ELSE files
    /\ result' =
         IF ~exists(file_path) THEN Error("NotFound", "file")
         ELSE IF ~loaded THEN Caught("InvalidFileException")
         ELSE IF ~found THEN Error("NotFound", "sheet")
         ELSE IF row < 1 THEN Caught("ValueError")
         ELSE [status |-> "success", file_path |-> file_path, sheet_name |-> sheet_name,
               cell |-> <<column, row>>, value |-> value]

\* a cell range "X1:Y2" by its boundaries (openpyxl range_boundaries)
CellRange(min_col, min_row, max_col, max_row) ==
    [min_col |-> min_col, min_row |-> min_row, max_col |-> max_col, max_row |-> max_row]
\* a cell address "X1" without a colon: worksheet["X1"] is one Cell, and the
\* loop over it raises TypeError
SingleCell(col, row) == [cell |-> <<col, row>>]
IsRange(cell_range) == "min_col" \in DOMAIN cell_range
InRange(cell_range, r, c) ==
    /\ cell_range.min_row <= r /\ r <= cell_range.max_row
    /\ ColIndex(cell_range.min_col) <= c /\ c <= ColIndex(cell_range.max_col)

\* font_kwargs as built from the arguments that are truthy
FontKwargs(font_color, bold, font_size) ==
    LET keys == (IF font_color # NoColor THEN {"color"} ELSE {})
                \cup (IF bold THEN {"bold"} ELSE {})
                \cup (IF font_size # NoSize THEN {"size"} ELSE {})
    IN [k \in keys |-> CASE k = "color" -> font_color
                         [] k = "bold" -> TRUE
                         [] k = "size" -> font_size]

\* the body of the loop over the cells of the range
FormatCell(style, font_color, bg_color, bold, font_size) ==
    LET font_kwargs == FontKwargs(font_color, bold, font_size)
    IN [font |-> IF DOMAIN font_kwargs # {} THEN Font(font_kwargs) ELSE style.font,
        fill |-> IF bg_color # NoColor THEN bg_color ELSE style.fill]

\* format_excel_cells(file_path, sheet_name, cell_range, font_color, bg_color, bold, font_size)
format_excel_cells(file_path, sheet_name, cell_range, font_color, bg_color, bold, font_size) ==
    LET wb == files[file_path]
        loaded == exists(file_path) /\ file_path \in XlsxPaths
        found == loaded /\ sheet_name \in SeqRange(sheetnames(wb))
        i == SheetIndex(wb, sheet_name)
        worksheet == wb.sheets[i]
        styles == [r \in Rows |-> [c \in Cols |->
                     IF InRange(cell_range, r, c)
                     THEN FormatCell(worksheet.styles[r][c], font_color, bg_color, bold, font_size)
                     ELSE worksheet.styles[r][c]]]
    IN
    /\ UNCHANGED pending
    /\ call' = [op |-> "format_excel_cells", file_path |-> file_path,
                sheet_name |-> sheet_name, cell_range |-> cell_range,
                font_color |-> font_color, bg_color |-> bg_color, bold |-> bold,
                font_size |-> font_size]
    /\ files' = IF found /\ IsRange(cell_range)
                THEN [files EXCEPT ![file_path] =
                        WithSheet(wb, i, [worksheet EXCEPT !.styles = styles])]
                ELSE files
    /\ result' =
         IF ~exists(file_path) THEN Error("NotFound", "file")
         ELSE IF ~loaded THEN Caught("InvalidFileException")
         ELSE IF ~found THEN Error("NotFound", "sheet")
         ELSE IF ~IsRange(cell_range) THEN Caught("TypeError")
         ELSE [status |-> "success", file_path |-> file_path, sheet_name |-> sheet_name,
               cell_range |-> cell_range, formatting_applied |-> TRUE]

\* worksheet.append(r) for r in dataframe_to_rows(df, index=False, header=True)
\* on a worksheet just created: labels, then the rows, default styles
AppendRows(title, df) ==
    Worksheet(title, to_excel(df, title).cells, PlainStyles)

\* a collision check against the first worksheet only
SheetTakenFirst(workbook, sheet_name) == sheet_name = sheetnames(workbook)[1]

\* sheet_name in workbook.sheetnames
SheetTaken(workbook, sheet_name) == sheet_name \in SeqRange(sheetnames(workbook))

\* a creation that puts the new worksheet in front of the others (index=0)
create_sheet_first(workbook, worksheet) == Document(<<worksheet>> \o workbook.sheets)

\* workbook.create_sheet(title=sheet_name): the new worksheet goes last
create_sheet(workbook, worksheet) == Document(Append(workbook.sheets, worksheet))

\* a return that first saves the workbook it holds
saved_anyway(fs, file_path, workbook) == [fs EXCEPT ![file_path] = workbook]

\* return {"error": ...} ahead of workbook.save(file_path): nothing is written
not_saved(fs, file_path, workbook) == fs

\* add_excel_sheet(file_path, sheet_name, data); data None and [] are both falsy
add_excel_sheet(file_path, sheet_name, data) ==
    LET loaded == ~exists(file_path) \/ file_path \in XlsxPaths
        workbook == IF ~exists(file_path) THEN Workbook ELSE files[file_path]
        taken == SheetTaken(workbook, sheet_name)
        worksheet == IF data # <<>> THEN AppendRows(sheet_name, DataFrame(data))
                     ELSE Worksheet(sheet_name, EmptyCells, PlainStyles)
    IN
    /\ UNCHANGED pending
    /\ call' = [op |-> "add_excel_sheet", file_path |-> file_path,
                sheet_name |-> sheet_name, data |-> data]
    /\ files' = IF ~loaded THEN files
                ELSE IF taken THEN not_saved(files, file_path, workbook)
                ELSE [files EXCEPT ![file_path] = create_sheet(workbook, worksheet)]
    /\ result' =
         IF ~loaded THEN Caught("InvalidFileException")
         ELSE IF taken THEN Error("AlreadyExists", "sheet")
         ELSE [status |-> "success", file_path |-> file_path, sheet_name |-> sheet_name,
               rows_added |-> Len(data)]

\* a removal by position that drops the last worksheet
RemoveLast(wb, name) == Document(SubSeq(wb.sheets, 1, Len(wb.sheets) - 1))

\* workbook.remove(workbook[sheet_name])
Remove(wb, name) ==
    Document(SelectSeq(wb.sheets, LAMBDA ws : ws.title # name))

\* the checks without the one for the last sheet
DeleteChecksNoLast(workbook, sheet_name) ==
    IF ~workbook.exists THEN Error("NotFound", "file")
    ELSE IF sheet_name \notin SeqRange(sheetnames(workbook)) THEN Error("NotFound", "sheet")
    ELSE [status |-> "success"]

\* the checks with the last-sheet test off by one
DeleteChecksOffByOne(workbook, sheet_name) ==
    IF ~workbook.exists THEN Error("NotFound", "file")
    ELSE IF sheet_name \notin SeqRange(sheetnames(workbook)) THEN Error("NotFound", "sheet")
    ELSE IF Len(sheetnames(workbook)) = 2 THEN Error("LastSheetError", "sheet")
    ELSE [status |-> "success"]

\* the checks with the last-sheet test ahead of the test for the sheet
DeleteChecksLastFirst(workbook, sheet_name) ==
    IF ~workbook.exists THEN Error("NotFound", "file")
    ELSE IF Len(sheetnames(workbook)) = 1 THEN Error("LastSheetError", "sheet")
    ELSE IF sheet_name \notin SeqRange(sheetnames(workbook)) THEN Error("NotFound", "sheet")
    ELSE [status |-> "success"]

\* the checks of delete_excel_sheet, in order, before anything is removed
DeleteChecks(workbook, sheet_name) ==
    IF ~workbook.exists THEN Error("NotFound", "file")
    ELSE IF sheet_name \notin SeqRange(sheetnames(workbook)) THEN Error("NotFound", "sheet")
    ELSE IF Len(sheetnames(workbook)) = 1 THEN Error("LastSheetError", "sheet")
    ELSE [status |-> "success"]

\* delete_excel_sheet(file_path, sheet_name)
delete_excel_sheet(file_path, sheet_name) ==
    LET workbook == files[file_path]
        outcome == IF exists(file_path) /\ file_path \notin XlsxPaths
                   THEN Caught("InvalidFileException")
                   ELSE DeleteChecks(workbook, sheet_name)
    IN
    /\ UNCHANGED pending
    /\ call' = [op |-> "delete_excel_sheet", file_path |-> file_path,
                sheet_name |-> sheet_name]
    /\ files' = IF ~IsError(outcome)
                THEN [files EXCEPT ![file_path] = Remove(workbook, sheet_name)]
                ELSE files
    /\ result' =
         IF IsError(outcome) THEN outcome
         ELSE [status |-> "success", file_path |-> file_path, deleted_sheet |-> sheet_name,
               remaining_sheets |-> sheetnames(Remove(workbook, sheet_name))]

\* the worksheet pd.read_excel(file_path, sheet_name=...) parses; an unknown
\* name raises ValueError
HasSheet(wb, sheet_name) ==
    sheet_name = NoSheetName \/ sheet_name \in SeqRange(sheetnames(wb))
PickSheet(wb, sheet_name) ==
    IF sheet_name # NoSheetName THEN wb.sheets[SheetIndex(wb, sheet_name)] ELSE wb.sheets[1]

\* excel_data_summary(file_path, sheet_name)
excel_data_summary(file_path, sheet_name) ==
    /\ call' = [op |-> "excel_data_summary", file_path |-> file_path,
                sheet_name |-> sheet_name]
    /\ UNCHANGED <<files, pending>>
    /\ result' =
         IF ~exists(file_path) THEN Error("NotFound", "file")
         ELSE IF ~HasSheet(files[file_path], sheet_name) THEN Caught("ValueError")
         ELSE LET df == read_excel(PickSheet(files[file_path], sheet_name))
                  nc == Len(df.columns)
                  numeric_columns == {c \in 1..nc : df.dtypes[c] \in {"int64", "float64"}}
                  summary ==
                    [file_path |-> file_path,
                     sheet_name |-> IF sheet_name # NoSheetName THEN sheet_name ELSE "default",
                     shape |-> [rows |-> Len(df.rows), columns |-> nc],
                     columns |-> df.columns,
                     data_types |-> df.dtypes,
                     null_counts |-> [c \in 1..nc |->
                        Cardinality({i \in 1..Len(df.rows) : IsNull(df.rows[i][c])})]]
              IN IF numeric_columns # {}
                 THEN [k \in DOMAIN summary \cup {"numeric_summary"} |->
                         IF k = "numeric_summary"
                         THEN [c \in numeric_columns |->
                                 [count |-> Cardinality({i \in 1..Len(df.rows) :
                                                           ~IsNull(df.rows[i][c])})]]
                         ELSE summary[k]]
                 ELSE summary

\* ---------------------------------------------------------------- search
\* str(v) as Series.astype(str) gives it: NaN is the text "nan"
StrNan == <<"n", "a", "n">>
astype_str(v) == IF v.t = "null" THEN StrNan ELSE TextOf(v)

\* str.lower on the alphabet used
Lower(ch) == CASE ch = "A" -> "a" [] ch = "N" -> "n" [] OTHER -> ch

\* re.compile(pat): "(" opens a group that is never closed
ValidPattern(pat) == \A k \in 1..Len(pat) : pat[k] # "("

\* one pattern character against one character of the text, re.IGNORECASE
CharMatches(pc, ch) == pc = "." \/ Lower(pc) = Lower(ch)

\* re.search(pat, text) is not None
Search(pat, text) ==
    \E i \in 1..(Len(text) - Len(pat) + 1) :
        \A k \in 1..Len(pat) : CharMatches(pat[k], text[i + k - 1])

\* a row of matches.iterrows(): one Series, so one dtype for the whole row;
\* when every column is numeric and one of them is float64 the int64 values
\* of the row become floats
iterrows(df, i) ==
    LET nc == Len(df.columns)
        upcast == /\ \A c \in 1..nc : df.dtypes[c] \in {"int64", "float64"}
                  /\ \E c \in 1..nc : df.dtypes[c] = "float64"
    IN [c \in 1..nc |->
          IF upcast /\ IsNumber(df.rows[i][c]) THEN Float(df.rows[i][c].s)
          ELSE df.rows[i][c]]

\* a row number that counts the data rows from 1
excel_row_number_from_1(idx) == idx + 1

\* excel_row_number = idx + 2
excel_row_number(idx) == idx + 2

\* find_excel_row_by_content(file_path, sheet_name, search_column, search_value)
find_excel_row_by_content(file_path, sheet_name, search_column, search_value) ==
    /\ call' = [op |-> "find_excel_row_by_content", file_path |-> file_path,
                sheet_name |-> sheet_name, search_column |-> search_column,
                search_value |-> search_value]
    /\ UNCHANGED <<files, pending>>
    /\ result' =
         IF ~exists(file_path) THEN Error("NotFound", "file")
         ELSE IF sheet_name \notin SeqRange(sheetnames(files[file_path]))
              THEN Caught("ValueError")
         ELSE LET df == read_excel(PickSheet(files[file_path], sheet_name)) IN
              IF search_column \notin SeqRange(df.columns) THEN Caught("KeyError")
              ELSE IF ~ValidPattern(search_value) THEN Caught("re.error")
              ELSE LET c == CHOOSE d \in 1..Len(df.columns) : df.columns[d] = search_column
                       hit(i) == Search(search_value, astype_str(df.rows[i][c]))
                       idxs == {i \in 1..Len(df.rows) : hit(i)}
                       ordered == SelectSeq([i \in 1..Len(df.rows) |-> i],
                                            LAMBDA i : i \in idxs)
                   IN IF idxs = {}
                      THEN [found |-> FALSE, message |-> <<search_value, search_column>>]
                      ELSE [found |-> TRUE, search_column |-> search_column,
                            search_value |-> search_value,
                            matches |-> [m \in 1..Len(ordered) |->
                                [excel_row_number |-> excel_row_number(ordered[m] - 1),
                                 pandas_index |-> ordered[m] - 1,
                                 data |-> iterrows(df, ordered[m])]],
                            total_matches |-> Len(ordered)]

\* ------------------------------------------------------------ the system
\* inputs of the tool calls
SheetNames == {"Sheet", "S1", "S2"}
ColA == Str(<<"a">>)
ColN == Str(<<"n">>)
sAn == Str(<<"A", "n">>)
sNA == Str(<<"N", "A">>)
n7 == Num(<<"7">>)

\* the empty record set and [{"a": "An"}]
CoreData == {<<>>, << << <<ColA, sAn>> >> >>}
CoreRanges == {CellRange("A", 1, "B", 2)}

\* the callers whose calls may overlap, and a caller with no call in flight
Callers == {"c1", "c2"}
Idle == [pc |-> "idle"]

Init ==
    /\ files = [p \in Paths |-> NoFile]
    /\ call = [op |-> "none"]
    /\ result = [status |-> "none"]
    /\ pending = [q \in Callers |-> Idle]

Read == \E p \in XlsxPaths, s \in {NoSheetName, "S1"} : read_excel_file(p, s)
List == \E p \in XlsxPaths : list_excel_sheets(p)
Write == \E p \in XlsxPaths, d \in CoreData, s \in SheetNames : write_excel_file(p, d, s)
Update == \E p \in XlsxPaths, s \in {"S1", "S2"}, r \in {MaxRow}, v \in {n7} :
             update_excel_cell(p, s, r, "A", v)
Format == \E p \in XlsxPaths, s \in {"Sheet", "S1"}, rg \in CoreRanges, b \in BOOLEAN :
             format_excel_cells(p, s, rg, NoColor, NoColor, b, NoSize)
Add == \E p \in XlsxPaths, s \in SheetNames, d \in CoreData : add_excel_sheet(p, s, d)
Delete == \E p \in XlsxPaths, s \in SheetNames : delete_excel_sheet(p, s)
Summary == \E p \in XlsxPaths, s \in {NoSheetName} : excel_data_summary(p, s)
Find == \E p \in XlsxPaths, s \in {"S1"}, v \in {<<"a">>} :
           find_excel_row_by_content(p, s, ColA, v)

Next == Read \/ List \/ Write \/ Update \/ Format \/ Add \/ Delete \/ Summary \/ Find

Spec == Init /\ [][Next]_vars

\* ------------------------------------------------ tabular round trips
\* scalars of the record sets and of the cell updates
Values == {Null, sAn, sNA, n7}

\* record sets whose rows share their columns: n rows over the columns cols,
\* the values drawn from vals
RecordSetsOver(cols, n, vals) ==
    {[i \in 1..n |-> [j \in 1..Len(cols) |-> <<cols[j], vs[i][j]>>]] :
        vs \in [1..n -> [1..Len(cols) -> vals]]}
TableData ==
    {<<>>}
    \cup UNION {RecordSetsOver(<<ColA>>, n, Values) : n \in 1..(MaxRow - 1)}
    \cup UNION {RecordSetsOver(cols, n, {sAn, n7}) :
                   cols \in {<<ColA, ColN>>, <<ColN, ColA>>}, n \in 1..(MaxRow - 1)}
    \cup RecordSetsOver(<<ColA, ColN>>, MaxRow - 1, {Null, n7})

\* search values: plain text, and the regular-expression characters . and (
Patterns == {<<"a">>, <<"n", "a", "n">>, <<"7">>, <<".">>, <<"(">>}

WriteT == \E p \in XlsxPaths, d \in TableData : write_excel_file(p, d, "S1")
ReadT == \E p \in XlsxPaths, s \in {NoSheetName, "S1"} : read_excel_file(p, s)
FindT == \E p \in XlsxPaths, col \in {ColA, ColN}, v \in Patterns :
            find_excel_row_by_content(p, "S1", col, v)
SummaryT == \E p \in XlsxPaths, s \in {NoSheetName, "S1"} : excel_data_summary(p, s)

NextTable == WriteT \/ ReadT \/ FindT \/ SummaryT

SpecTable == Init /\ [][NextTable]_vars

\* ------------------------------------------------------- cell updates
CellData == {<<>>, << << <<ColA, sAn>>, <<ColN, n7>> >> >>}

WriteC == \E p \in XlsxPaths, d \in CellData : write_excel_file(p, d, "S1")
UpdateC == \E p \in XlsxPaths, r \in Rows, col \in SeqRange(ColLetters), v \in Values :
              update_excel_cell(p, "S1", r, col, v)
ReadC == \E p \in XlsxPaths : read_excel_file(p, "S1")

NextCell == WriteC \/ UpdateC \/ ReadC

SpecCell == Init /\ [][NextCell]_vars

\* --------------------------------------------------------- formatting
FontColors == {NoColor, "FF0000"}
BgColors == {NoColor, "FFFF00"}
FontSizes == {NoSize, 14}
FormatRanges == {CellRange("A", 1, "B", 1), CellRange("A", 1, "B", MaxRow)}

WriteF == \E p \in XlsxPaths, d \in CoreData : write_excel_file(p, d, "S1")
FormatF == \E p \in XlsxPaths, rg \in FormatRanges, fc \in FontColors, bg \in BgColors,
              b \in BOOLEAN, fs \in FontSizes :
              format_excel_cells(p, "S1", rg, fc, bg, b, fs)

NextFormat == WriteF \/ FormatF

SpecFormat == Init /\ [][NextFormat]_vars

\* ------------------------------------------------ paths and arguments
\* every operation on both paths, with arguments the libraries reject: row 0,
\* a cell address in place of a range, an unbalanced search pattern, a sheet
\* or a column that is absent
PathRanges == {CellRange("A", 1, "A", 1), SingleCell("A", 1)}

ReadP == \E p \in Paths, s \in {NoSheetName, "S2"} : read_excel_file(p, s)
ListP == \E p \in Paths : list_excel_sheets(p)
WriteP == \E p \in Paths, d \in CoreData : write_excel_file(p, d, "S1")
UpdateP == \E p \in Paths, s \in {"S1", "S2"}, r \in {0, 2} :
              update_excel_cell(p, s, r, "A", n7)
FormatP == \E p \in Paths, s \in {"S1", "S2"}, rg \in PathRanges :
              format_excel_cells(p, s, rg, NoColor, NoColor, TRUE, NoSize)
AddP == \E p \in Paths, s \in {"Sheet", "S2"} : add_excel_sheet(p, s, <<>>)
DeleteP == \E p \in Paths, s \in {"S1", "S2"} : delete_excel_sheet(p, s)
SummaryP == \E p \in Paths, s \in {NoSheetName, "S1"} : excel_data_summary(p, s)
FindP == \E p \in Paths, col \in {ColA, ColN}, v \in {<<"a">>, <<"(">>} :
            find_excel_row_by_content(p, "S1", col, v)

NextPaths == ReadP \/ ListP \/ WriteP \/ UpdateP \/ FormatP \/ AddP \/ DeleteP
             \/ SummaryP \/ FindP

SpecPaths == Init /\ [][NextPaths]_vars

\* ----------------------------------------------------- overlapping calls
\* Two callers run update_excel_cell and delete_excel_sheet with no
\* coordination.  A call in flight is at one of the library calls of its
\* function: it has loaded the workbook (openpyxl.load_workbook), or
\* workbook.save has opened the file for writing and not yet closed it.
\* workbook.save writes a new zip archive over the file in place
\* (ZipFile(filename, 'w')): the file is truncated when the archive is opened
\* and is a workbook again when the archive is closed.

\* a file that is not a readable archive: truncated and partly written, or
\* written by two archives at once
Torn == [exists |-> TRUE, sheets |-> <<>>]

NoneInFlight == \A q \in Callers : pending[q] = Idle

MutatingCalls ==
    {[op |-> "update_excel_cell", file_path |-> p, sheet_name |-> s, row |-> 2,
      column |-> "A", value |-> n7] : p \in XlsxPaths, s \in {"S1", "S2"}}
    \cup {[op |-> "delete_excel_sheet", file_path |-> p, sheet_name |-> s] :
             p \in XlsxPaths, s \in {"S1", "S2"}}

\* the checks of a call on the workbook it loaded, ahead of its change
Checks(c, workbook) ==
    IF c.op = "delete_excel_sheet" THEN DeleteChecks(workbook, c.sheet_name)
    ELSE IF c.sheet_name \notin SeqRange(sheetnames(workbook)) THEN Error("NotFound", "sheet")
    ELSE IF c.row < 1 THEN Caught("ValueError")
    ELSE [status |-> "success"]

\* the workbook a call saves: the workbook it loaded with its own change
Changed(c, workbook) ==
    IF c.op = "delete_excel_sheet" THEN Remove(workbook, c.sheet_name)
    ELSE SetCell(workbook, c.sheet_name, c.row, c.column, c.value)

\* the success object of a call
Returned(c, workbook) ==
    IF c.op = "delete_excel_sheet"
    THEN [status |-> "success", file_path |-> c.file_path, deleted_sheet |-> c.sheet_name,
          remaining_sheets |-> sheetnames(Changed(c, workbook))]
    ELSE [status |-> "success", file_path |-> c.file_path, sheet_name |-> c.sheet_name,
          cell |-> <<c.column, c.row>>, value |-> c.value]

\* a call that has returned: the workbook it had loaded, whether it saved,
\* and whether it was the last to close the file
Done(c, workbook, saved) ==
    [pc |-> "done", call |-> c, workbook |-> workbook, saved |-> saved, last |-> saved]

\* the other callers whose save has the same file open
SavingWith(q) ==
    {r \in Callers \ {q} : /\ pending[r].pc = "saving"
                            /\ pending[r].call.file_path = pending[q].call.file_path}

\* os.path.exists(file_path) and openpyxl.load_workbook(file_path) of call c
load_workbook(q, c) ==
    LET doc == files[c.file_path]
        outcome == IF ~doc.exists THEN Error("NotFound", "file")
                   ELSE IF doc = Torn THEN Caught("BadZipFile")
                   ELSE [status |-> "success"]
    IN
    /\ pending[q] = Idle
    /\ UNCHANGED files
    /\ IF IsError(outcome)
       THEN /\ pending' = [pending EXCEPT ![q] = Done(c, doc, FALSE)]
            /\ call' = c
            /\ result' = outcome
       ELSE /\ pending' = [pending EXCEPT ![q] = [pc |-> "loaded", call |-> c,
                                                  workbook |-> doc]]
            /\ UNCHANGED <<call, result>>

\* the checks and the change on the loaded workbook, then workbook.save opens
\* the archive: the file is truncated
save_open(q) ==
    LET c == pending[q].call
        workbook == pending[q].workbook
        outcome == Checks(c, workbook)
        others == SavingWith(q)
    IN
    /\ pending[q].pc = "loaded"
    /\ IF IsError(outcome)
       THEN /\ pending' = [pending EXCEPT ![q] = Done(c, workbook, FALSE)]
            /\ call' = c
            /\ result' = outcome
            /\ UNCHANGED files
       ELSE /\ files' = [files EXCEPT ![c.file_path] = Torn]
            /\ pending' = [r \in Callers |->
                              IF r = q THEN [pc |-> "saving", call |-> c,
                                             workbook |-> workbook, clean |-> others = {}]
                              ELSE IF r \in others THEN [pending[r] EXCEPT !.clean = FALSE]
                              ELSE pending[r]]
            /\ UNCHANGED <<call, result>>

\* workbook.save closes the archive and the call returns.  The file holds the
\* workbook saved when no other save had it open in the meantime; it is torn
\* while another save still has it open, and may be torn when another save
\* wrote to it during this one
save_close(q) ==
    LET c == pending[q].call
        workbook == pending[q].workbook
        written == Changed(c, workbook)
        outcomes == IF SavingWith(q) # {} THEN {Torn}
                    ELSE IF pending[q].clean THEN {written}
                    ELSE {written, Torn}
    IN
    /\ pending[q].pc = "saving"
    /\ \E doc \in outcomes : files' = [files EXCEPT ![c.file_path] = doc]
    /\ pending' = [r \in Callers |->
                      IF r = q THEN Done(c, workbook, TRUE)
                      ELSE IF pending[r].pc = "done" THEN [pending[r] EXCEPT !.last = FALSE]
                      ELSE pending[r]]
    /\ call' = c
    /\ result' = Returned(c, workbook)

WriteK == \E p \in XlsxPaths, d \in CellData : NoneInFlight /\ write_excel_file(p, d, "S1")
AddK == \E p \in XlsxPaths, s \in {"S1", "S2"} : NoneInFlight /\ add_excel_sheet(p, s, <<>>)
LoadK == \E q \in Callers, c \in MutatingCalls : load_workbook(q, c)
OpenK == \E q \in Callers : save_open(q)
CloseK == \E q \in Callers : save_close(q)

NextConc == WriteK \/ AddK \/ LoadK \/ OpenK \/ CloseK

SpecConc == Init /\ [][NextConc]_vars

\* ---------------------------------------------------------------- claims
OnDisk(p) == files[p]
Called(op) == call.op = op
Succeeded == ~IsError(result)
Failed(kind) == IsError(result) /\ result.error = kind

\* C1: in every reachable state, every Document that exists on disk contains
\* at least one sheet.
C1_AtLeastOneSheet ==
    \A p \in Paths : exists(p) => Len(OnDisk(p).sheets) >= 1

\* a sheet was deleted and exactly one is left
C1_Witness ==
    /\ Called("delete_excel_sheet") /\ Succeeded
    /\ Len(OnDisk(call.file_path).sheets) = 1

\* C2: delete_excel_sheet on an existing Document with exactly one sheet,
\* naming that sheet, returns LastSheetError and leaves the file as it was.
C2_LastSheetRefused ==
    [][ (/\ call'.op = "delete_excel_sheet"
         /\ exists(call'.file_path)
         /\ sheetnames(OnDisk(call'.file_path)) = <<call'.sheet_name>>)
        => (/\ result' = Error("LastSheetError", "sheet")
            /\ files' = files) ]_vars

C2_Witness ==
    /\ Called("delete_excel_sheet") /\ Failed("LastSheetError")
    /\ sheetnames(OnDisk(call.file_path)) = <<call.sheet_name>>
    /\ ~IsNull(OnDisk(call.file_path).sheets[1].cells[2][1])

\* C3: add_excel_sheet with a sheet name already present in the Document at
\* the path fails with AlreadyExists, with or without data.
C3_AddExistingFails ==
    [][ (/\ call'.op = "add_excel_sheet"
         /\ exists(call'.file_path)
         /\ call'.sheet_name \in SeqRange(sheetnames(OnDisk(call'.file_path))))
        => (/\ result' = Error("AlreadyExists", "sheet")) ]_vars

\* the name of the second sheet of a Document is given, with data
C3_Witness ==
    /\ Called("add_excel_sheet") /\ Failed("AlreadyExists")
    /\ call.data # <<>>
    /\ Len(OnDisk(call.file_path).sheets) >= 2
    /\ OnDisk(call.file_path).sheets[2].title = call.sheet_name

\* C4: delete_excel_sheet on a Document with two sheets, naming one of them,
\* succeeds, removes exactly that sheet, leaves the other sheet with its name
\* and cells unchanged, and returns that other sheet as the remaining list.
C4_DeleteOneOfTwo ==
    [][ (/\ call'.op = "delete_excel_sheet"
         /\ exists(call'.file_path)
         /\ Len(OnDisk(call'.file_path).sheets) = 2
         /\ call'.sheet_name \in SeqRange(sheetnames(OnDisk(call'.file_path))))
        => (LET before == OnDisk(call'.file_path).sheets
                other == IF before[1].title = call'.sheet_name THEN before[2] ELSE before[1]
            IN /\ ~IsError(result')
               /\ files'[call'.file_path].exists
               /\ files'[call'.file_path].sheets = <<other>>
               /\ result'.deleted_sheet = call'.sheet_name
               /\ result'.remaining_sheets = <<other.title>>) ]_vars

\* the first of two sheets was deleted and the sheet left holds data
C4_Witness ==
    /\ Called("delete_excel_sheet") /\ Succeeded
    /\ Len(result.remaining_sheets) = 1
    /\ Len(OnDisk(call.file_path).sheets) = 1
    /\ ~IsNull(OnDisk(call.file_path).sheets[1].cells[2][1])

\* the grid that holds the header row of a record set and then its rows
TableOf(data) ==
    LET cols == IF data = <<>> THEN <<>> ELSE RowKeys(data[1])
    IN [r \in Rows |-> [c \in Cols |->
          IF c > Len(cols) \/ r > Len(data) + 1 THEN Null
          ELSE IF r = 1 THEN cols[c]
          ELSE data[r - 1][c][2]]]

\* C7: after a successful write_excel_file(p, D, S) the Document at p is
\* exactly one sheet, named S, holding the header row and then the rows of D.
C7_WriteReplaces ==
    (Called("write_excel_file") /\ Succeeded)
    => /\ exists(call.file_path)
       /\ sheetnames(OnDisk(call.file_path)) = <<call.sheet_name>>
       /\ OnDisk(call.file_path).sheets[1].cells = TableOf(call.data)

C7_Witness ==
    /\ Called("write_excel_file") /\ Succeeded
    /\ call.data # <<>>
    /\ ~IsNull(OnDisk(call.file_path).sheets[1].cells[2][1])

\* the column order of a record set: the keys of its first row
ColumnOrder(data) == IF data = <<>> THEN <<>> ELSE RowKeys(data[1])

\* C5: write_excel_file(p, D, S) followed by read_excel_file(p, S) returns a
\* row count equal to the length of D and a column list equal to D's column
\* order, for every record set D.
C5_WriteReadShape ==
    [][ (/\ call.op = "write_excel_file" /\ ~IsError(result)
         /\ call'.op = "read_excel_file"
         /\ call'.file_path = call.file_path
         /\ call'.sheet_name = call.sheet_name)
        => (/\ ~IsError(result')
            /\ result'.shape.rows = Len(call.data)
            /\ result'.columns = ColumnOrder(call.data)) ]_vars

\* two scalars are the same value: 7 and 7.0 are
SameScalar(a, b) ==
    \/ a = b
    \/ (IsNull(a) /\ IsNull(b))
    \/ (IsNumber(a) /\ IsNumber(b) /\ a.s = b.s)

\* what a read result holds at the position of the cell (column c, row r):
\* the column label for the header row, the record's value for a data row;
\* nothing (Null) where the result has no such position
ValueAt(res, r, c) ==
    IF c > Len(res.columns) THEN Null
    ELSE IF r = 1 THEN res.columns[c]
    ELSE IF r - 1 > Len(res.data) THEN Null
    ELSE res.data[r - 1].record[c]

\* C6: a successful update_excel_cell followed by read_excel_file of the same
\* path and sheet returns the written value unchanged at the position of that
\* cell, for every 1-based row including the header row 1.  (Stated for the
\* values that are not null: a cleared cell has no value to return.)
C6_UpdateReadRoundTrip ==
    [][ (/\ call.op = "update_excel_cell" /\ ~IsError(result)
         /\ ~IsNull(call.value)
         /\ call'.op = "read_excel_file"
         /\ call'.file_path = call.file_path
         /\ call'.sheet_name = call.sheet_name)
        => (/\ ~IsError(result')
            /\ SameScalar(ValueAt(result', call.row, ColIndex(call.column)),
                          call.value)) ]_vars

\* text is a case-insensitive substring of the string form of a value
ContainsIgnoreCase(text, sub) ==
    \E i \in 1..(Len(text) - Len(sub) + 1) :
        \A k \in 1..Len(sub) : Lower(sub[k]) = Lower(text[i + k - 1])

\* the column a find call searched, as a sequence of the values of its rows
SearchedColumn ==
    LET df == read_excel(PickSheet(OnDisk(call.file_path), call.sheet_name))
        c == CHOOSE d \in 1..Len(df.columns) : df.columns[d] = call.search_column
    IN [i \in 1..Len(df.rows) |-> df.rows[i][c]]
SearchedColumnExists ==
    /\ exists(call.file_path)
    /\ call.sheet_name \in SeqRange(sheetnames(OnDisk(call.file_path)))
    /\ call.search_column \in
         SeqRange(read_excel(PickSheet(OnDisk(call.file_path), call.sheet_name)).columns)
ShouldMatch(v) ==
    ~IsNull(v) /\ ContainsIgnoreCase(astype_str(v), call.search_value)
Matched ==
    IF result.found THEN {result.matches[m].pandas_index + 1 : m \in 1..Len(result.matches)}
    ELSE {}

\* C8: find_excel_row_by_content never returns a row whose value in the
\* searched column is null, and returns every other row exactly when the
\* search value is a case-insensitive substring of the string form of its
\* value in that column.
C8_FindMatchesSubstring ==
    (Called("find_excel_row_by_content") /\ Succeeded)
    => \A i \in 1..Len(SearchedColumn) : (i \in Matched) <=> ShouldMatch(SearchedColumn[i])

\* C9: find_excel_row_by_content on an existing file with a search value that
\* matches no cell of the given column returns a not-found result, never an
\* error object.
C9_NoMatchIsNotFound ==
    (/\ Called("find_excel_row_by_content")
     /\ SearchedColumnExists
     /\ \A i \in 1..Len(SearchedColumn) : ~ShouldMatch(SearchedColumn[i]))
    => (/\ ~IsError(result)
        /\ result.found = FALSE)

\* C10: format_excel_cells leaves every Format Descriptor field the call does
\* not specify unchanged on each cell of the range, also when other fields
\* are specified in the same call.
C10_UnspecifiedFieldsKept ==
    [][ (call'.op = "format_excel_cells" /\ ~IsError(result'))
        => (LET before == PickSheet(OnDisk(call'.file_path), call'.sheet_name).styles
                after == PickSheet(files'[call'.file_path], call'.sheet_name).styles
            IN \A r \in Rows, c \in Cols :
                 InRange(call'.cell_range, r, c) =>
                   /\ (call'.font_color = NoColor
                         => after[r][c].font.color = before[r][c].font.color)
                   /\ (~call'.bold => after[r][c].font.bold = before[r][c].font.bold)
                   /\ (call'.font_size = NoSize
                         => after[r][c].font.size = before[r][c].font.size)
                   /\ (call'.bg_color = NoColor
                         => after[r][c].fill = before[r][c].fill)) ]_vars

C17_FirstFailingCheck ==
    [][ (call'.op = "delete_excel_sheet")
        => (LET p == call'.file_path IN
            /\ ~exists(p) => result' = Error("NotFound", "file")
            /\ (/\ exists(p)
                /\ call'.sheet_name \notin SeqRange(sheetnames(OnDisk(p))))
               => result' = Error("NotFound", "sheet")
            /\ (/\ exists(p)
                /\ call'.sheet_name \in SeqRange(sheetnames(OnDisk(p)))
                /\ Len(OnDisk(p).sheets) = 1)
               => result' = Error("LastSheetError", "sheet")) ]_vars

\* an absent sheet was named on a Document with exactly one sheet
C17_Witness ==
    /\ Called("delete_excel_sheet") /\ Failed("NotFound") /\ result.about = "sheet"
    /\ exists(call.file_path)
    /\ Len(OnDisk(call.file_path).sheets) = 1
    /\ call.sheet_name \notin SeqRange(sheetnames(OnDisk(call.file_path)))

\* C16: every call that returns a NotFound, AlreadyExists, LastSheetError or
\* UnsupportedFormat error leaves the whole file system unchanged: an
\* existing Document keeps its sheets and cells, and no file is created at a
\* path where none existed.
C16_RefusalsChangeNothing ==
    [][ (/\ IsError(result')
         /\ result'.error \in {"NotFound", "AlreadyExists", "LastSheetError",
                               "UnsupportedFormat"})
        => files' = files ]_vars

\* add_excel_sheet on a path without a file, with the name of the default
\* sheet: refused, and there is still no file at the path
C16_Witness ==
    /\ Called("add_excel_sheet") /\ Failed("AlreadyExists")
    /\ call.sheet_name = "Sheet"
    /\ ~exists(call.file_path)

\* the kinds of the error taxonomy, and the field every success object of an
\* operation has
ErrorKinds == {"NotFound", "UnsupportedFormat", "AlreadyExists", "LastSheetError",
               "Unexpected"}
SuccessField(op) ==
    CASE op = "read_excel_file" -> "data"
      [] op = "list_excel_sheets" -> "sheets"
      [] op = "excel_data_summary" -> "shape"
      [] op = "find_excel_row_by_content" -> "found"
      [] OTHER -> "status"

\* C12: every call of any of the nine operations, for every argument value
\* and every state of the file system, returns either a success object that
\* has no error field or an error object that carries the error message; no
\* failure leaves the operation as an exception.
C12_NoFailureEscapes ==
    (call.op # "none")
    => /\ "raised" \notin DOMAIN result
       /\ \/ (/\ IsError(result)
               /\ result.error \in ErrorKinds
               /\ "about" \in DOMAIN result
               /\ SuccessField(call.op) \notin DOMAIN result)
          \/ (/\ ~IsError(result)
               /\ SuccessField(call.op) \in DOMAIN result)

\* an exception of a library was raised inside an operation: the search
\* pattern did not compile
C12_Witness ==
    /\ Called("find_excel_row_by_content")
    /\ call.search_value = <<"(">>
    /\ result = Error("Unexpected", "re.error")

\* C14: read_excel_file tags the data row at zero-based index k with
\* spreadsheet row number k + 2, and find_excel_row_by_content reports each
\* match at zero-based index k with row number k + 2, so on the same path and
\* sheet every match of find carries the same row number and the same column
\* values as the row read_excel_file tags with that number.  (Sequences here
\* are 1-based: position i is index k = i - 1.  An integer and the float of
\* the same value are the same column value.)
C14_FindAgreesWithRead ==
    [][ /\ (call'.op = "read_excel_file" /\ ~IsError(result'))
           => \A i \in 1..Len(result'.data) :
                 result'.data[i]._excel_row_number = (i - 1) + 2
        /\ (/\ call.op = "read_excel_file" /\ ~IsError(result)
            /\ call'.op = "find_excel_row_by_content" /\ ~IsError(result')
            /\ call'.file_path = call.file_path
            /\ call'.sheet_name = call.sheet_name
            /\ result'.found)
           => \A m \in 1..Len(result'.matches) :
                 LET match == result'.matches[m]
                     k == match.pandas_index
                 IN /\ match.excel_row_number = k + 2
                    /\ k + 1 \in 1..Len(result.data)
                    /\ result.data[k + 1]._excel_row_number = match.excel_row_number
                    /\ Len(match.data) = Len(result.data[k + 1].record)
                    /\ \A c \in 1..Len(match.data) :
                          SameScalar(match.data[c], result.data[k + 1].record[c]) ]_vars

\* a match in the second data row of a sheet with two columns
C14_Witness ==
    /\ Called("find_excel_row_by_content") /\ Succeeded /\ result.found
    /\ \E m \in 1..Len(result.matches) :
          /\ result.matches[m].excel_row_number = 3
          /\ Len(result.matches[m].data) = 2

\* the cells of the sheet a summary call looked at, and its data rows: the
\* rows below the header down to the last row that holds a value
SummarizedCells == PickSheet(OnDisk(call.file_path), call.sheet_name).cells
DataRows == 2..LastRow(SummarizedCells)
EmptyCellsOf(c) == {r \in DataRows : IsNull(SummarizedCells[r][c])}

\* C15: excel_data_summary omits the numeric-statistics section exactly when
\* the sheet has no column inferred as numeric, and reports for each column a
\* null count equal to the number of empty cells of that column among the
\* data rows.
C15_SummaryCounts ==
    (Called("excel_data_summary") /\ Succeeded)
    => /\ ("numeric_summary" \notin DOMAIN result)
            <=> (\A c \in 1..Len(result.columns) :
                    result.data_types[c] \notin {"int64", "float64"})
       /\ \A c \in 1..Len(result.columns) :
             result.null_counts[c] = Cardinality(EmptyCellsOf(c))

\* C13: when two mutating operations on the same path overlap (each loads
\* the Document, then saves it whole), the Document on disk after both have
\* finished is exactly what the operation that saved last wrote: the snapshot
\* it loaded plus its own change.
C13_LastWriterWins ==
    \A q \in Callers :
        (/\ pending[q].pc = "done" /\ pending[q].last
         /\ \A r \in Callers : /\ pending[r].pc = "done"
                                /\ pending[r].saved
                                /\ pending[r].call.file_path = pending[q].call.file_path)
        => OnDisk(pending[q].call.file_path) = Changed(pending[q].call, pending[q].workbook)

====
